---- MODULE Spec2Model ----
\* A model of mac-dir-scope.py: the pre-scan, the directory-size aggregation and
\* the metadata collection pass of generate_excel, over a bounded filesystem.
\*
\* Paths are sequences of one-character strings, so that len(), dirname, join,
\* basename, splitext and split act on them as they do on Python strings.
EXTENDS Integers, Sequences, FiniteSets, TLC

\* ------------------------------------------------------------------ bounds

\* Number of entries (files, folders, links) below the scanned directory.
MaxEntries == 3
\* Longest basename drawn for the single-entry trees that exercise the labels.
MaxNameLen == 4

\* ------------------------------------------------------- strings and paths

Sep == "/"
ExtSep == "."

\* Position (1-based) of the last occurrence of c in p, 0 when there is none:
\* Python's p.rfind(c) + 1.
RFind(p, c) ==
    LET hits == {i \in 1..Len(p) : p[i] = c}
    IN  IF hits = {} THEN 0 ELSE CHOOSE i \in hits : \A j \in hits : j <= i

\* p.rstrip(c)
RECURSIVE RStrip(_, _)
RStrip(p, c) ==
    IF p # <<>> /\ p[Len(p)] = c THEN RStrip(SubSeq(p, 1, Len(p) - 1), c) ELSE p

AllSep(p) == \A i \in 1..Len(p) : p[i] = Sep

StartsWith(p, q) == Len(p) >= Len(q) /\ SubSeq(p, 1, Len(q)) = q

\* os.path.join(a, b) for two components (posixpath).
join(a, b) ==
    IF b # <<>> /\ b[1] = Sep THEN b
    ELSE IF a = <<>> \/ a[Len(a)] = Sep THEN a \o b
    ELSE a \o <<Sep>> \o b

\* os.path.dirname(p) (posixpath): the head up to the last separator, with its
\* trailing separators stripped unless it consists of separators only.
dirname(p) ==
    LET i == RFind(p, Sep)
        head == SubSeq(p, 1, i)
    IN  IF head # <<>> /\ ~AllSep(head) THEN RStrip(head, Sep) ELSE head

\* os.path.basename(p)
basename(p) == SubSeq(p, RFind(p, Sep) + 1, Len(p))

\* The mutant of splitext: the extension starts at the last dot wherever it is.
splitext_anydot(p) ==
    LET dotIndex == RFind(p, ExtSep)
    IN  IF dotIndex > RFind(p, Sep)
        THEN <<SubSeq(p, 1, dotIndex - 1), SubSeq(p, dotIndex, Len(p))>>
        ELSE <<p, <<>>>>

\* The scan of genericpath._splitext over the characters between the last
\* separator and the last dot: TRUE when one of them is not a dot.
RECURSIVE NonDotBefore(_, _, _)
NonDotBefore(p, filenameIndex, dotIndex) ==
    IF filenameIndex >= dotIndex THEN FALSE
    ELSE IF p[filenameIndex] # ExtSep THEN TRUE
    ELSE NonDotBefore(p, filenameIndex + 1, dotIndex)

\* os.path.splitext(p): <<root, ext>>; leading dots of the last component do
\* not start an extension.
splitext(p) ==
    LET sepIndex == RFind(p, Sep)
        dotIndex == RFind(p, ExtSep)
    IN  IF dotIndex > sepIndex /\ NonDotBefore(p, sepIndex + 1, dotIndex)
        THEN <<SubSeq(p, 1, dotIndex - 1), SubSeq(p, dotIndex, Len(p))>>
        ELSE <<p, <<>>>>

\* p.split(os.sep): the pieces between separators, empty pieces included.
RECURSIVE Split(_, _)
Split(p, cur) ==
    IF p = <<>> THEN <<cur>>
    ELSE IF Head(p) = Sep THEN <<cur>> \o Split(Tail(p), <<>>)
    ELSE Split(Tail(p), Append(cur, Head(p)))

\* get_path_levels(path): the non-empty pieces of the path.
get_path_levels(path) == SelectSeq(Split(path, <<>>), LAMBDA level : level # <<>>)

Max(a, b) == IF a >= b THEN a ELSE b

\* ------------------------------------------------------------- filesystem

\* The three spellings of the scanned directory: the filesystem root, a
\* directory, and the same directory written with a trailing separator.
RootSpellings == {<<Sep>>, <<Sep, "r">>, <<Sep, "r", Sep>>}

EntryChars == <<"a", "b", "c", "d", "e", "f">>

\* Sibling names differ in their letter; their lengths differ too.
EntryName(n) ==
    LET c == EntryChars[((n - 1) % Len(EntryChars)) + 1]
    IN  IF n % 2 = 0 THEN <<c, c>> ELSE <<c>>

\* Distinct powers of two: every set of files has its own total.
FileSize(n) == 2 ^ (n - 1)

\* What an entry is, and what goes wrong with it:
\*   "list"   os.scandir on the directory raises (permission denied),
\*   "stat"   os.stat / os.path.getsize on the file raises OSError.
KindFault ==
    ({"dir"} \X {"none", "list"})
        \cup ({"file"} \X {"none", "stat"})
        \cup ({"linkfile", "linkdir"} \X {"none"})

\* The directories a link to a directory can point to: the scanned directory
\* (an ancestor of every entry) or an earlier real directory, which may be an
\* ancestor of the link or hold a link back to the link's own directory.
LinkTargets(t, kind) ==
    IF kind = "linkdir" THEN {q \in 0..Len(t) : q = 0 \/ t[q].kind = "dir"} ELSE {0}

\* The entries that can be added as entry number Len(t) + 1 of the tree t:
\* below the scanned directory (0) or below an earlier real directory.
NewEntries(t) ==
    LET n == Len(t) + 1
        above == {q \in 0..Len(t) : q = 0 \/ t[q].kind = "dir"}
    IN  UNION {{[parent |-> p, name |-> EntryName(n), kind |-> kf[1], fault |-> kf[2],
                 size |-> FileSize(n), target |-> g] : g \in LinkTargets(t, kf[1])} :
                    p \in above, kf \in KindFault}

RECURSIVE Trees(_)
Trees(n) ==
    IF n = 0 THEN {<<>>}
    ELSE UNION {{Append(t, e) : e \in NewEntries(t)} : t \in Trees(n - 1)}

\* Basenames over a letter, a capital and the dot, up to MaxNameLen characters.
NameChars == {"a", "B", ExtSep}

RECURSIVE NamesOfLen(_)
NamesOfLen(n) ==
    IF n = 0 THEN {<<>>}
    ELSE {Append(s, c) : s \in NamesOfLen(n - 1), c \in NameChars}

Basenames == UNION {NamesOfLen(n) : n \in 1..MaxNameLen} \ {<<ExtSep>>, <<ExtSep, ExtSep>>}

\* Trees of one entry whose basename is drawn from Basenames.
NameTrees ==
    {<<[parent |-> 0, name |-> b, kind |-> k, fault |-> "none", size |-> 1,
        target |-> 0]>> :
        b \in Basenames, k \in {"dir", "file"}}

VARIABLES
    starting_directory, \* the argument of generate_excel
    fs,                 \* the filesystem below it: a sequence of entries
    pc,                 \* where generate_excel is
    stack,              \* os.walk: the directories still to be listed
    total_items,        \* count_files_and_max_levels, and generate_excel's copy
    max_levels,
    dir_sizes,          \* precompute_directory_sizes: the map, a function
    dir_keys,           \* its keys in insertion order
    agg_queue,          \* the sorted keys the aggregation loop has yet to process
    cur_root,           \* collection pass: root of the os.walk triple at hand
    all_items,          \* collection pass: the entries of it still to be handled
    visited,            \* collection pass: the paths handled so far (history)
    rows,               \* the worksheet's data rows
    row_number,
    processed_items,
    stats,
    saved,              \* workbook.save(save_path) has written the file
    ret                 \* what generate_excel returned

vars == <<starting_directory, fs, pc, stack, total_items, max_levels, dir_sizes,
          dir_keys, agg_queue, cur_root, all_items, visited, rows, row_number,
          processed_items, stats, saved, ret>>

Entries == 1..Len(fs)

\* The entries of directory d (0: the scanned directory) in listing order.
Children(d) == SelectSeq([i \in Entries |-> i], LAMBDA i : fs[i].parent = d)

\* entry.is_dir() follows symbolic links.
IsDirEntry(i) == fs[i].kind \in {"dir", "linkdir"}
IsLink(i) == fs[i].kind \in {"linkdir", "linkfile"}

\* os.walk(top): the triple it yields for a directory it can list.
WalkDirs(d) == SelectSeq(Children(d), IsDirEntry)
WalkFiles(d) == SelectSeq(Children(d), LAMBDA i : ~IsDirEntry(i))

\* os.scandir(top) succeeds; os.walk skips a directory where it raises.
Listable(d) == d = 0 \/ fs[d].fault # "list"

\* The mutant of WalkInto: os.walk(top, followlinks=True), which also lists
\* the directory a link points to.
WalkInto_followlinks(top, d) ==
    LET sub == WalkDirs(d)
    IN  [k \in 1..Len(sub) |->
            [path |-> join(top, fs[sub[k]].name),
             node |-> IF IsLink(sub[k]) THEN fs[sub[k]].target ELSE sub[k]]]

\* os.walk pushes the subdirectories that are not symbolic links.
WalkInto(top, d) ==
    LET sub == SelectSeq(WalkDirs(d), LAMBDA i : ~IsLink(i))
    IN  [k \in 1..Len(sub) |-> [path |-> join(top, fs[sub[k]].name), node |-> sub[k]]]

EmptyMap == [p \in {} |-> 0]

NoStats ==
    [total_items |-> 0, max_levels |-> 0, processed_items |-> 0, directories |-> 0,
     files |-> 0, errors |-> 0, total_size_bytes |-> 0]

Init ==
    /\ starting_directory \in RootSpellings
    /\ fs \in (UNION {Trees(n) : n \in 0..MaxEntries}) \cup NameTrees
    /\ pc = "prescan"
    /\ stack = <<[path |-> starting_directory, node |-> 0]>>
    /\ total_items = 0
    /\ max_levels = 0
    /\ dir_sizes = EmptyMap
    /\ dir_keys = <<>>
    /\ agg_queue = <<>>
    /\ cur_root = <<>>
    /\ all_items = <<>>
    /\ visited = <<>>
    /\ rows = <<>>
    /\ row_number = 0
    /\ processed_items = 0
    /\ stats = NoStats
    /\ saved = FALSE
    /\ ret = "running"

\* ------------------------------------------------- where the program is

\* An os.walk loop of pass p has a directory to list / has none left.
Walking(p) == pc = p /\ stack # <<>>
WalkDone(p) == pc = p /\ stack = <<>>

\* The aggregation loop has a key to process / has none left.
Aggregating == pc = "aggregate" /\ agg_queue # <<>>
Aggregated == pc = "aggregate" /\ agg_queue = <<>>

\* The collection pass has an entry of the triple at hand to handle.
EntryAtHand == pc = "collect" /\ all_items # <<>>

\* workbook.save is next.
Saving == pc = "save"

\* ---------------------------------------------- count_files_and_max_levels

\* The mutant of LevelsOver: the levels of root instead of those of
\* os.path.join(root, item).
RECURSIVE LevelsOver_root(_, _, _)
LevelsOver_root(m, root, items) ==
    IF items = <<>> THEN m
    ELSE LevelsOver_root(Max(m, Len(get_path_levels(root))), root, Tail(items))

\* The inner loop over dirs + files of one os.walk triple: the running maximum
\* of the number of path levels.
RECURSIVE LevelsOver(_, _, _)
LevelsOver(m, root, items) ==
    IF items = <<>> THEN m
    ELSE LevelsOver(Max(m, Len(get_path_levels(join(root, fs[Head(items)].name)))),
                    root, Tail(items))

\* One os.walk triple of the pre-scan (a directory that cannot be listed
\* yields none).
PrescanDir ==
    /\ Walking("prescan")
    /\ LET top == Head(stack)
           items == WalkDirs(top.node) \o WalkFiles(top.node)
       IN  IF Listable(top.node)
           THEN /\ total_items' = total_items + Len(items)
                /\ max_levels' = LevelsOver(max_levels, top.path, items)
                /\ stack' = WalkInto(top.path, top.node) \o Tail(stack)
           ELSE /\ stack' = Tail(stack)
                /\ UNCHANGED <<total_items, max_levels>>
    /\ UNCHANGED <<starting_directory, fs, pc, dir_sizes, dir_keys, agg_queue,
                   cur_root, all_items, visited, rows, row_number,
                   processed_items, stats, saved, ret>>

\* The mutant of NothingToProcess: if total_items < 0
NothingToProcess_negative(n) == n < 0

\* if total_items == 0
NothingToProcess(n) == n = 0

\* The pre-scan returns; generate_excel returns (False, {}) when it counted
\* nothing, and calls precompute_directory_sizes otherwise.
PrescanReturn ==
    /\ WalkDone("prescan")
    /\ IF NothingToProcess(total_items)
       THEN /\ ret' = "False_nostats"
            /\ pc' = "done"
            /\ UNCHANGED stack
       ELSE /\ pc' = "sizewalk"
            /\ stack' = <<[path |-> starting_directory, node |-> 0]>>
            /\ UNCHANGED ret
    /\ UNCHANGED <<starting_directory, fs, total_items, max_levels, dir_sizes,
                   dir_keys, agg_queue, cur_root, all_items, visited, rows,
                   row_number, processed_items, stats, saved>>

\* ---------------------------------------------- precompute_directory_sizes

RECURSIVE SumSizes(_)
SumSizes(files) ==
    IF files = <<>> THEN 0 ELSE fs[Head(files)].size + SumSizes(Tail(files))

\* The body of the first loop for one directory: the sum of os.path.getsize
\* over its files that are not links, or 0 when one getsize raises OSError.
DirectSize(d) ==
    LET sized == SelectSeq(WalkFiles(d), LAMBDA i : ~IsLink(i))
    IN  IF \E k \in 1..Len(sized) : fs[sized[k]].fault = "stat"
        THEN 0
        ELSE SumSizes(sized)

\* d[k] = v
DictSet(d, k, v) == [x \in (DOMAIN d) \cup {k} |-> IF x = k THEN v ELSE d[x]]

\* d.get(k, default)
DictGet(d, k, default) == IF k \in DOMAIN d THEN d[k] ELSE default

\* One os.walk triple of the first loop.
SizeWalkDir ==
    /\ Walking("sizewalk")
    /\ LET top == Head(stack)
       IN  IF Listable(top.node)
           THEN /\ dir_sizes' = DictSet(dir_sizes, top.path, DirectSize(top.node))
                /\ dir_keys' = IF top.path \in DOMAIN dir_sizes THEN dir_keys
                               ELSE Append(dir_keys, top.path)
                /\ stack' = WalkInto(top.path, top.node) \o Tail(stack)
           ELSE /\ stack' = Tail(stack)
                /\ UNCHANGED <<dir_sizes, dir_keys>>
    /\ UNCHANGED <<starting_directory, fs, pc, total_items, max_levels, agg_queue,
                   cur_root, all_items, visited, rows, row_number,
                   processed_items, stats, saved, ret>>

\* Stable insertion of x into a sequence sorted by length, longest first.
RECURSIVE InsertByLen(_, _)
InsertByLen(sorted, x) ==
    IF sorted = <<>> THEN <<x>>
    ELSE IF Len(Head(sorted)) >= Len(x) THEN <<Head(sorted)>> \o InsertByLen(Tail(sorted), x)
    ELSE <<x>> \o sorted

\* The mutant of SortedByLenDesc: sorted(keys, key=len), shortest first.
RECURSIVE SortedByLenAsc(_)
SortedByLenAsc(keys) ==
    IF keys = <<>> THEN <<>>
    ELSE LET shortest == CHOOSE k \in 1..Len(keys) :
                            /\ \A j \in 1..Len(keys) : Len(keys[k]) <= Len(keys[j])
                            /\ \A j \in 1..(k - 1) : Len(keys[j]) > Len(keys[k])
         IN  <<keys[shortest]>>
                 \o SortedByLenAsc(SubSeq(keys, 1, shortest - 1)
                                       \o SubSeq(keys, shortest + 1, Len(keys)))

\* sorted(keys, key=len, reverse=True): stable, equal lengths keep their order.
RECURSIVE SortedByLenDesc(_)
SortedByLenDesc(keys) ==
    IF keys = <<>> THEN <<>>
    ELSE InsertByLen(SortedByLenDesc(SubSeq(keys, 1, Len(keys) - 1)), keys[Len(keys)])

\* The walk is over; the aggregation loop starts on the sorted keys.
SizeWalkSort ==
    /\ WalkDone("sizewalk")
    /\ agg_queue' = SortedByLenDesc(dir_keys)
    /\ pc' = "aggregate"
    /\ UNCHANGED <<starting_directory, fs, stack, total_items, max_levels, dir_sizes,
                   dir_keys, cur_root, all_items, visited, rows, row_number,
                   processed_items, stats, saved, ret>>

\* if parent != path and parent in dir_sizes
AddsToParent(d, path, parent) == parent # path /\ parent \in DOMAIN d

\* One iteration of the aggregation loop.
AggregateStep ==
    /\ Aggregating
    /\ LET path == Head(agg_queue)
           parent == dirname(path)
       IN  dir_sizes' = IF AddsToParent(dir_sizes, path, parent)
                        THEN DictSet(dir_sizes, parent, dir_sizes[parent] + dir_sizes[path])
                        ELSE dir_sizes
    /\ agg_queue' = Tail(agg_queue)
    /\ UNCHANGED <<starting_directory, fs, pc, stack, total_items, max_levels,
                   dir_keys, cur_root, all_items, visited, rows, row_number,
                   processed_items, stats, saved, ret>>

\* precompute_directory_sizes returns; generate_excel sets up the worksheet,
\* stats and the counters, and starts the collection walk.
PrecomputeReturn ==
    /\ Aggregated
    /\ pc' = "collect"
    /\ stack' = <<[path |-> starting_directory, node |-> 0]>>
    /\ stats' = [NoStats EXCEPT !.total_items = total_items, !.max_levels = max_levels]
    /\ row_number' = 1
    /\ processed_items' = 0
    /\ UNCHANGED <<starting_directory, fs, total_items, max_levels, dir_sizes,
                   dir_keys, agg_queue, cur_root, all_items, visited, rows,
                   saved, ret>>

\* ------------------------------------------------------------ get_file_info

Folder == <<"F", "o", "l", "d", "e", "r">>
File == <<"F", "i", "l", "e">>

\* file_type of an entry that is not a directory: ext[1:] if ext else "File".
file_type_of(path) ==
    LET ext == splitext(basename(path))[2]
    IN  IF ext # <<>> THEN SubSeq(ext, 2, Len(ext)) ELSE File

\* "hidden" / "temporary" / "visible" from the basename's first characters.
hidden_of(path) ==
    IF StartsWith(basename(path), <<".">>) THEN "hidden"
    ELSE IF StartsWith(basename(path), <<"~", "$">>) THEN "temporary"
    ELSE "visible"

None == [ok |-> FALSE]

\* get_file_info(path, directory_sizes) for the entry i that path names: None
\* when os.stat raises. size is the number of bytes that the code divides by
\* 1024; the timestamps, tags and kind are left out.
get_file_info(path, i, directory_sizes) ==
    IF fs[i].fault = "stat" THEN None
    ELSE [ok |-> TRUE,
          size |-> IF IsDirEntry(i) THEN DictGet(directory_sizes, path, 0) ELSE fs[i].size,
          file_type |-> IF IsDirEntry(i) THEN Folder ELSE file_type_of(path),
          hidden |-> hidden_of(path)]

\* The mutant of directory_sizes_after: the lookup written as
\* directory_sizes.setdefault(path, 0), which stores the default.
directory_sizes_setdefault(directory_sizes, path, i) ==
    IF fs[i].fault # "stat" /\ IsDirEntry(i) /\ path \notin DOMAIN directory_sizes
    THEN DictSet(directory_sizes, path, 0)
    ELSE directory_sizes

\* The map after get_file_info(path, directory_sizes): its only use of the
\* map is directory_sizes.get(path, 0), which stores nothing.
directory_sizes_after(directory_sizes, path, i) == directory_sizes

\* -------------------------------------------- generate_excel: collection

\* all_items = [(d, True) for d in dirs] + [(f, False) for f in files]
AllItems(d) ==
    LET ds == WalkDirs(d)
        fl == WalkFiles(d)
    IN  [k \in 1..Len(ds) |-> [item_name |-> fs[ds[k]].name, is_dir |-> TRUE, node |-> ds[k]]]
        \o [k \in 1..Len(fl) |-> [item_name |-> fs[fl[k]].name, is_dir |-> FALSE, node |-> fl[k]]]

\* One os.walk triple of the collection pass.
CollectDir ==
    /\ all_items = <<>>
    /\ Walking("collect")
    /\ LET top == Head(stack)
       IN  IF Listable(top.node)
           THEN /\ cur_root' = top.path
                /\ all_items' = AllItems(top.node)
                /\ stack' = WalkInto(top.path, top.node) \o Tail(stack)
           ELSE /\ stack' = Tail(stack)
                /\ UNCHANGED <<cur_root, all_items>>
    /\ UNCHANGED <<starting_directory, fs, pc, total_items, max_levels, dir_sizes,
                   dir_keys, agg_queue, visited, rows, row_number,
                   processed_items, stats, saved, ret>>

\* The mutant of RowNumberAfter: row_number += 1 after the if / else.
RowNumberAfter_always(n, emitted) == n + 1

\* row_number after an entry: row_number += 1 in the branch that emits a row.
RowNumberAfter(n, emitted) == IF emitted THEN n + 1 ELSE n

\* The mutant of StatsAfterEntry: the directories / files line after the
\* if / else, so that an errored entry is counted twice.
StatsAfterEntry_twice(s, emitted, is_dir, processed) ==
    LET t == IF emitted THEN s ELSE [s EXCEPT !.errors = @ + 1]
    IN  IF is_dir
        THEN [t EXCEPT !.directories = @ + 1, !.processed_items = processed]
        ELSE [t EXCEPT !.files = @ + 1, !.processed_items = processed]

\* The mutant of StatsAfterEntry: the else branch does not count the error.
StatsAfterEntry_silent(s, emitted, is_dir, processed) ==
    IF emitted
    THEN IF is_dir
         THEN [s EXCEPT !.directories = @ + 1, !.processed_items = processed]
         ELSE [s EXCEPT !.files = @ + 1, !.processed_items = processed]
    ELSE [s EXCEPT !.processed_items = processed]

\* stats after an entry that did not raise: one of directories / files for an
\* emitted row, errors otherwise, and the new processed_items.
StatsAfterEntry(s, emitted, is_dir, processed) ==
    IF emitted
    THEN IF is_dir
         THEN [s EXCEPT !.directories = @ + 1, !.processed_items = processed]
         ELSE [s EXCEPT !.files = @ + 1, !.processed_items = processed]
    ELSE [s EXCEPT !.errors = @ + 1, !.processed_items = processed]

\* The row of an entry: [row_number, current_path, size, ..., ftype, *path_levels]
RowData(n, path, info) ==
    [num |-> n, path |-> path, size |-> info.size, hidden |-> info.hidden,
     ftype |-> info.file_type, path_levels |-> get_path_levels(path)]

\* An entry whose get_file_info succeeds and whose row is appended.
CollectEntryOk ==
    /\ EntryAtHand
    /\ LET item == Head(all_items)
           current_path == join(cur_root, item.item_name)
           file_info == get_file_info(current_path, item.node, dir_sizes)
       IN  /\ file_info # None
           /\ rows' = Append(rows, RowData(row_number, current_path, file_info))
           /\ row_number' = RowNumberAfter(row_number, TRUE)
           /\ processed_items' = processed_items + 1
           /\ stats' = StatsAfterEntry(stats, TRUE, item.is_dir, processed_items + 1)
           /\ visited' = Append(visited, current_path)
           /\ dir_sizes' = directory_sizes_after(dir_sizes, current_path, item.node)
    /\ all_items' = Tail(all_items)
    /\ UNCHANGED <<starting_directory, fs, pc, stack, total_items, max_levels,
                   dir_keys, agg_queue, cur_root, saved, ret>>

\* An entry for which get_file_info returns None.
CollectEntryError ==
    /\ EntryAtHand
    /\ LET item == Head(all_items)
           current_path == join(cur_root, item.item_name)
           file_info == get_file_info(current_path, item.node, dir_sizes)
       IN  /\ file_info = None
           /\ row_number' = RowNumberAfter(row_number, FALSE)
           /\ processed_items' = processed_items + 1
           /\ stats' = StatsAfterEntry(stats, FALSE, item.is_dir, processed_items + 1)
           /\ visited' = Append(visited, current_path)
           /\ dir_sizes' = directory_sizes_after(dir_sizes, current_path, item.node)
    /\ all_items' = Tail(all_items)
    /\ UNCHANGED <<starting_directory, fs, pc, stack, total_items, max_levels,
                   dir_keys, agg_queue, cur_root, rows, saved, ret>>

\* stats in the handler of the loop's try: stats['errors'] += 1
StatsAfterException(s) == [s EXCEPT !.errors = @ + 1]

\* An entry whose get_file_info succeeds and whose row worksheet.append refuses
\* (any row may be refused): the exception leaves the loop, the handler counts
\* an error and generate_excel returns (False, stats).
CollectAbort ==
    /\ EntryAtHand
    /\ LET item == Head(all_items)
           current_path == join(cur_root, item.item_name)
           file_info == get_file_info(current_path, item.node, dir_sizes)
       IN  /\ file_info # None
           /\ visited' = Append(visited, current_path)
           /\ dir_sizes' = directory_sizes_after(dir_sizes, current_path, item.node)
    /\ stats' = StatsAfterException(stats)
    /\ ret' = "False_stats"
    /\ pc' = "done"
    /\ UNCHANGED <<starting_directory, fs, stack, total_items, max_levels,
                   dir_keys, agg_queue, cur_root, all_items, rows,
                   row_number, processed_items, saved>>

\* The walk is over: total_size_mb from the map's entry for the scanned
\* directory (kept in bytes), then format_worksheet.
CollectDone ==
    /\ all_items = <<>>
    /\ WalkDone("collect")
    /\ stats' = [stats EXCEPT !.total_size_bytes = DictGet(dir_sizes, starting_directory, 0)]
    /\ pc' = "save"
    /\ UNCHANGED <<starting_directory, fs, stack, total_items, max_levels,
                   dir_sizes, dir_keys, agg_queue, cur_root, all_items, visited,
                   rows, row_number, processed_items, saved, ret>>

\* workbook.save(save_path) succeeds: (True, stats).
SaveOk ==
    /\ Saving
    /\ saved' = TRUE
    /\ ret' = "True_stats"
    /\ pc' = "done"
    /\ UNCHANGED <<starting_directory, fs, stack, total_items, max_levels,
                   dir_sizes, dir_keys, agg_queue, cur_root, all_items, visited,
                   rows, row_number, processed_items, stats>>

\* workbook.save(save_path) raises: (False, stats).
SaveFail ==
    /\ Saving
    /\ ret' = "False_stats"
    /\ pc' = "done"
    /\ UNCHANGED <<starting_directory, fs, stack, total_items, max_levels,
                   dir_sizes, dir_keys, agg_queue, cur_root, all_items, visited,
                   rows, row_number, processed_items, stats, saved>>

Next ==
    \/ PrescanDir
    \/ PrescanReturn
    \/ SizeWalkDir
    \/ SizeWalkSort
    \/ AggregateStep
    \/ PrecomputeReturn
    \/ CollectDir
    \/ CollectEntryOk
    \/ CollectEntryError
    \/ CollectAbort
    \/ CollectDone
    \/ SaveOk
    \/ SaveFail

Spec == Init /\ [][Next]_vars

\* ------------------------------------------------------------------ claims

\* The path under which os.walk reaches entry d (0: the scanned directory).
RECURSIVE KeyOf(_)
KeyOf(d) == IF d = 0 THEN starting_directory ELSE join(KeyOf(fs[d].parent), fs[d].name)

\* The directories os.walk lists: the scanned directory and the real
\* directories below it whose ancestors can all be listed.
RECURSIVE Reached(_)
Reached(d) == d = 0 \/ (fs[d].kind = "dir" /\ Listable(fs[d].parent) /\ Reached(fs[d].parent))

Dirs == {0} \cup {d \in Entries : fs[d].kind = "dir"}

RECURSIVE SumOver(_, _)
SumOver(S, f) ==
    IF S = {} THEN 0
    ELSE LET x == CHOOSE y \in S : TRUE IN f[x] + SumOver(S \ {x}, f)

\* The size of each entry, and the map's value for each directory that is a key.
SizeFn == [i \in Entries |-> fs[i].size]
TotalFn == [c \in {e \in Entries : KeyOf(e) \in DOMAIN dir_sizes} |-> dir_sizes[KeyOf(c)]]

NoFaults == \A i \in Entries : fs[i].fault = "none"

\* precompute_directory_sizes has returned its map.
PrecomputeReturned == pc \in {"collect", "save"} \/ (pc = "done" /\ ret # "False_nostats")

\* The bytes of every file below the scanned directory that is not a link.
GrandTotal == SumOver({i \in Entries : fs[i].kind = "file"}, SizeFn)

\* C1: on a tree where every directory can be listed and every file sized, the
\* returned map's entry for the root path as passed (whatever its spelling) is
\* the sum of the sizes of all files below the root that are not links.
C1_RootGrandTotal ==
    (PrecomputeReturned /\ NoFaults)
        => /\ starting_directory \in DOMAIN dir_sizes
           /\ dir_sizes[starting_directory] = GrandTotal

\* The sizes of the files directly in d that are not links.
DirectFiles(d) == {i \in Entries : fs[i].parent = d /\ fs[i].kind = "file"}

\* The immediate subdirectories of d that are keys of the map.
VisitedSubdirs(d) ==
    {c \in Entries : fs[c].parent = d /\ fs[c].kind = "dir" /\ KeyOf(c) \in DOMAIN dir_sizes}

\* C2: when precompute_directory_sizes has returned (tree without faults),
\* every directory D of the map holds the sizes of the files directly in D that
\* are not links plus the map's values of its visited immediate subdirectories.
C2_ParentChildSum ==
    (PrecomputeReturned /\ NoFaults)
        => \A d \in Dirs : KeyOf(d) \in DOMAIN dir_sizes =>
              dir_sizes[KeyOf(d)] =
                  SumOver(DirectFiles(d), SizeFn)
                  + SumOver(VisitedSubdirs(d), TotalFn)

\* A directory the walk comes to whose contents cannot be listed or sized.
Errored(d) ==
    /\ d \in Entries
    /\ fs[d].kind = "dir"
    /\ Reached(fs[d].parent)
    /\ Listable(fs[d].parent)
    /\ \/ fs[d].fault = "list"
       \/ \E i \in DirectFiles(d) : fs[i].fault = "stat"

\* C3: a directory below the root whose contents cannot be listed or sized is a
\* key of the returned map, with nothing of its own in its value (0 plus what
\* its visited subdirectories add).
C3_ErroredDirIsKey ==
    PrecomputeReturned
        => \A d \in Entries : Errored(d) =>
              /\ KeyOf(d) \in DOMAIN dir_sizes
              /\ dir_sizes[KeyOf(d)] = SumOver(VisitedSubdirs(d), TotalFn)

\* C4: the ordinals of the rows appended so far are 1, 2, ..., K in append
\* order, whatever the number of entries that errored in between; during the
\* collection loop row_number is one more than the number of rows.
C4_OrdinalsDense ==
    /\ \A k \in 1..Len(rows) : rows[k].num = k
    /\ pc = "collect" => row_number = Len(rows) + 1

\* Two entries errored and a row was appended after them.
C4_Witness ==
    /\ pc = "collect"
    /\ stats.errors >= 2
    /\ rows # <<>>
    /\ rows[Len(rows)].path = visited[Len(visited)]

CounterSum == stats.errors + stats.directories + stats.files

\* generate_excel returned through the handler of the collection loop's try:
\* the entry whose handling raised is still the head of all_items.
Aborted == pc = "done" /\ ret = "False_stats" /\ all_items # <<>>

\* C5 as claimed: on every return of generate_excel that has started the
\* collection pass, errors + directories + files equals processed_items.
C5_CountersSum ==
    (pc = "done" /\ ret \in {"True_stats", "False_stats"})
        => CounterSum = stats.processed_items

\* C5 as amended: during the loop and on every return that leaves it normally
\* the three counters add up to processed_items, the number of entries
\* visited, and directories + files is the number of rows; on the return
\* through the loop's exception handler they add up to processed_items + 1.
C5_CountersSumAmended ==
    PrecomputeReturned
        => /\ stats.directories + stats.files = Len(rows)
           /\ stats.processed_items = processed_items
           /\ IF Aborted
              THEN CounterSum = stats.processed_items + 1
              ELSE /\ CounterSum = stats.processed_items
                   /\ stats.processed_items = Len(visited)

\* A return through the handler after an errored entry and an emitted one.
C5_Witness ==
    /\ Aborted
    /\ stats.errors >= 2
    /\ stats.directories + stats.files >= 1

\* The entries the walks come to: those of the reached directories that can
\* be listed.
ReachableEntries == {i \in Entries : Reached(fs[i].parent) /\ Listable(fs[i].parent)}

\* C6 as claimed: no failure while handling one entry ends the scan: at every
\* return after the collection pass started, every entry of the tree has been
\* visited.
C6_ScanNeverEnds ==
    (pc = "done" /\ ret # "False_nostats")
        => Len(visited) = Cardinality(ReachableEntries)

\* C6 as amended: an entry for which get_file_info fails is left out of the
\* rows, counts one error and the loop goes on; when the loop is left normally
\* every entry has been visited, the errors are the entries whose get_file_info
\* failed and the rows are the others; the loop is left early only through the
\* handler, by an entry whose get_file_info had succeeded.
C6_EntryFailureAmended ==
    /\ [][(pc = "collect" /\ all_items # <<>> /\ fs[Head(all_items).node].fault = "stat")
            => /\ pc' = "collect"
               /\ rows' = rows
               /\ stats'.errors = stats.errors + 1
               /\ all_items' = Tail(all_items)
               /\ stack' = stack]_vars
    /\ []((pc = "save" \/ (pc = "done" /\ ret # "False_nostats" /\ ~Aborted))
            => /\ Len(visited) = Cardinality(ReachableEntries)
               /\ stats.errors = Cardinality({i \in ReachableEntries : fs[i].fault = "stat"})
               /\ Len(rows) = Cardinality({i \in ReachableEntries : fs[i].fault # "stat"}))
    /\ [](Aborted => fs[Head(all_items).node].fault # "stat")

\* The loop ended normally after an error that was followed by a row.
C6_Witness ==
    /\ pc = "save"
    /\ stats.errors >= 1
    /\ rows # <<>>
    /\ rows[Len(rows)].path = visited[Len(visited)]

\* C7: when the pre-scan finds no entry (empty directory), generate_excel
\* returns (False, {}) without the size aggregation, without the collection
\* pass, without a row and without saving; it returns so in that case only.
C7_EmptyFails ==
    /\ (pc # "prescan" /\ (total_items = 0 \/ fs = <<>>))
          => /\ pc = "done"
             /\ ret = "False_nostats"
             /\ dir_sizes = EmptyMap
             /\ dir_keys = <<>>
             /\ rows = <<>>
             /\ visited = <<>>
             /\ stats = NoStats
             /\ saved = FALSE
    /\ ret = "False_nostats" => (total_items = 0 /\ fs = <<>>)

\* generate_excel has returned on an empty directory.
C7_Witness == pc = "done" /\ fs = <<>> /\ ret = "False_nostats"

RECURSIVE MaxLevelsOf(_)
MaxLevelsOf(paths) ==
    IF paths = <<>> THEN 0
    ELSE Max(Len(get_path_levels(Head(paths))), MaxLevelsOf(Tail(paths)))

\* C8 as claimed: the stats['max_levels'] that generate_excel returns is the
\* maximum number of path levels over the entries the collection pass visited.
C8_MaxLevelsOfVisited ==
    (pc = "done" /\ ret # "False_nostats") => stats.max_levels = MaxLevelsOf(visited)

\* C8 as amended: stats['max_levels'] is the pre-scan's maximum; no row and no
\* visited entry has more path levels; it equals the maximum over the entries
\* the collection pass visited when that pass has run to its end.
C8_MaxLevelsAmended ==
    PrecomputeReturned
        => /\ stats.max_levels = max_levels
           /\ \A k \in 1..Len(rows) : Len(rows[k].path_levels) <= stats.max_levels
           /\ MaxLevelsOf(visited) <= stats.max_levels
           /\ (pc = "save" \/ (pc = "done" /\ ~Aborted))
                 => stats.max_levels = MaxLevelsOf(visited)

\* The pass ran to its end and the deepest entry is one that errored: every
\* row has fewer levels than there are Level columns.
C8_Witness ==
    /\ pc = "save"
    /\ rows # <<>>
    /\ stats.errors >= 1
    /\ \A k \in 1..Len(rows) : Len(rows[k].path_levels) < stats.max_levels

\* The entry that a path of the collection pass names.
EntryAt(path) == CHOOSE i \in Entries : KeyOf(i) = path

LastDot(b) == RFind(b, ExtSep)
AfterLastDot(b) == SubSeq(b, LastDot(b) + 1, Len(b))

\* The basename has a dot after a character that is not a dot.
HasExtension(b) == LastDot(b) > 0 /\ \E j \in 1..(LastDot(b) - 1) : b[j] # ExtSep

\* C9 as claimed: the label of a row is Folder for a directory; otherwise File
\* when the basename has no dot, and the text after its last dot when it has.
C9_LabelLastDot ==
    \A k \in 1..Len(rows) :
        LET i == EntryAt(rows[k].path)
            b == fs[i].name
        IN  rows[k].ftype = IF IsDirEntry(i) THEN Folder
                            ELSE IF LastDot(b) = 0 THEN File
                            ELSE AfterLastDot(b)

\* C9 as amended: the label of a row is Folder for a directory; otherwise the
\* text after the last dot of the basename (case kept, empty when the basename
\* ends with the dot) when that dot follows a character that is not a dot, and
\* File when it does not: the dots a basename starts with begin no extension.
C9_LabelAmended ==
    \A k \in 1..Len(rows) :
        LET i == EntryAt(rows[k].path)
            b == fs[i].name
        IN  rows[k].ftype = IF IsDirEntry(i) THEN Folder
                            ELSE IF HasExtension(b) THEN AfterLastDot(b)
                            ELSE File

\* A file whose basename starts with a dot and has a second one got the text
\* after the second as its label.
C9_Witness ==
    \E k \in 1..Len(rows) :
        LET b == fs[EntryAt(rows[k].path)].name
        IN  /\ b[1] = ExtSep
            /\ HasExtension(b)
            /\ rows[k].ftype = <<"B">>

Rank(p) ==
    CASE p = "prescan" -> 0
      [] p = "sizewalk" -> 1
      [] p = "aggregate" -> 2
      [] p = "collect" -> 3
      [] p = "save" -> 4
      [] p = "done" -> 5

\* C10: the three traversals run one after another, each to its end before
\* the next starts; the counts change in the pre-scan only, the map in
\* precompute_directory_sizes only and the rows in the collection pass only;
\* once precompute_directory_sizes has returned no step changes the map.
C10_SequentialReadOnly ==
    [][/\ Rank(pc') >= Rank(pc)
       /\ (pc \in {"prescan", "sizewalk"} /\ pc' # pc) => stack = <<>>
       /\ (pc = "aggregate" /\ pc' # pc) => agg_queue = <<>>
       /\ (total_items' # total_items \/ max_levels' # max_levels) => pc' = "prescan"
       /\ (rows' # rows \/ visited' # visited) => pc = "collect"
       /\ (dir_sizes' # dir_sizes \/ dir_keys' # dir_keys) => pc' \in {"sizewalk", "aggregate"}
       /\ PrecomputeReturned => dir_sizes' = dir_sizes]_vars

\* The report was saved with the row of a folder that is no key of the map: the
\* lookup fell back to 0 and stored nothing.
C10_Witness ==
    /\ ret = "True_stats"
    /\ Cardinality(DOMAIN dir_sizes) >= 2
    /\ \E k \in 1..Len(rows) : rows[k].ftype = Folder /\ rows[k].path \notin DOMAIN dir_sizes

\* The keys the aggregation loop has yet to process, the one at hand included.
Pending == {agg_queue[k] : k \in 1..Len(agg_queue)}

\* The directories below directory d, at any depth.
RECURSIVE IsBelow(_, _)
IsBelow(c, d) == c # 0 /\ (fs[c].parent = d \/ IsBelow(fs[c].parent, d))

\* The directory whose key the aggregation loop has at hand.
AtHand(d) == pc = "aggregate" /\ agg_queue # <<>> /\ KeyOf(d) = Head(agg_queue)

\* C11: in the aggregation loop, when the key of a directory P is at hand,
\* every visited directory below P has been processed (its key is no longer
\* pending) and no pending key has P as its parent; and no step of the loop
\* changes the value of a key that is at hand or was processed: the value that
\* is added to P's parent is P's final value.
C11_ValueFinalWhenAdded ==
    /\ [](\A d \in Dirs : AtHand(d) =>
            /\ \A c \in Dirs : (IsBelow(c, d) /\ KeyOf(c) \in DOMAIN dir_sizes)
                                  => KeyOf(c) \notin Pending
            /\ \A k \in 2..Len(agg_queue) : dirname(agg_queue[k]) # KeyOf(d))
    /\ [][pc = "aggregate" =>
            \A key \in DOMAIN dir_sizes :
                (key \notin Pending \/ (agg_queue # <<>> /\ key = Head(agg_queue)))
                    => (key \in DOMAIN dir_sizes' /\ dir_sizes'[key] = dir_sizes[key])]_vars

\* The key at hand is about to be added to its parent and already holds the
\* bytes of a directory below it.
C11_Witness ==
    /\ pc = "aggregate"
    /\ agg_queue # <<>>
    /\ AddsToParent(dir_sizes, Head(agg_queue), dirname(Head(agg_queue)))
    /\ \E key \in DOMAIN dir_sizes :
          /\ key \notin Pending
          /\ dirname(key) = Head(agg_queue)
          /\ dir_sizes[key] > 0

\* The real directories directly in directory d.
RealSubdirs(d) == {c \in Entries : fs[c].parent = d /\ fs[c].kind = "dir"}

\* The number of directories a walk started at d takes from its stack: d, and
\* the real directories below it when d can be listed.
RECURSIVE WalkWeight(_)
WalkWeight(d) ==
    1 + (IF Listable(d)
         THEN SumOver(RealSubdirs(d), [c \in RealSubdirs(d) |-> WalkWeight(c)])
         ELSE 0)

RECURSIVE StackWork(_)
StackWork(st) == IF st = <<>> THEN 0 ELSE WalkWeight(Head(st).node) + StackWork(Tail(st))

\* The steps the collection pass, the aggregation loop and the size walk have
\* ahead of them when they start.
CollectBudget == WalkWeight(0) + Len(fs) + 2
AggregateBudget == WalkWeight(0) + 1 + CollectBudget
SizeWalkBudget == WalkWeight(0) + 1 + AggregateBudget

\* A bound on the number of steps generate_excel still takes.
StepsLeft ==
    CASE pc = "prescan" -> StackWork(stack) + 1 + SizeWalkBudget
      [] pc = "sizewalk" -> StackWork(stack) + 1 + AggregateBudget
      [] pc = "aggregate" -> Len(agg_queue) + 1 + CollectBudget
      [] pc = "collect" -> StackWork(stack) + (Len(fs) - Len(visited)) + 2
      [] pc = "save" -> 1
      [] pc = "done" -> 0

\* generate_excel has returned.
Returned == pc = "done" /\ ret # "running"

\* get_file_info of the entry at hand.
HeadInfo ==
    LET item == Head(all_items)
    IN  get_file_info(join(cur_root, item.item_name), item.node, dir_sizes)

\* The guard of one of the steps of generate_excel holds.
HasStep ==
    \/ Walking("prescan") \/ WalkDone("prescan")
    \/ Walking("sizewalk") \/ WalkDone("sizewalk")
    \/ Aggregating \/ Aggregated
    \/ (all_items = <<>> /\ Walking("collect"))
    \/ (EntryAtHand /\ HeadInfo # None)
    \/ (EntryAtHand /\ HeadInfo = None)
    \/ (all_items = <<>> /\ WalkDone("collect"))
    \/ Saving

\* C12: on every tree, links to directories that point to an ancestor or into
\* each other's directories included, the three walks only ever list the
\* scanned directory and real directories (a link is an entry of its parent,
\* never a directory to list); every step of generate_excel lowers a bound on
\* the steps left, which is never negative, and as long as generate_excel has
\* not returned it has a step to take: it reaches a return.
C12_Terminates ==
    /\ [][StepsLeft' < StepsLeft]_vars
    /\ [](/\ StepsLeft >= 0
          /\ \A k \in 1..Len(stack) : stack[k].node = 0 \/ fs[stack[k].node].kind = "dir"
          /\ Returned \/ HasStep
          /\ pc = "done" => Returned)

\* The link is below the directory it points to.
LinksUp(i) == fs[i].kind = "linkdir" /\ (fs[i].target = 0 \/ IsBelow(i, fs[i].target))

\* A link points into a directory that holds a link back into the first
\* link's directory.
LinksAcross(i) ==
    /\ fs[i].kind = "linkdir"
    /\ \E j \in Entries :
          /\ fs[j].kind = "linkdir"
          /\ fs[j].parent = fs[i].target
          /\ fs[j].target = fs[i].parent

\* generate_excel returned (True, stats) on a tree with a link to an ancestor
\* that is not the scanned directory; the link has its row, as a Folder.
C12_Witness ==
    /\ ret = "True_stats"
    /\ \E i \in Entries :
          /\ LinksUp(i)
          /\ fs[i].target # 0
          /\ \E k \in 1..Len(rows) : rows[k].path = KeyOf(i) /\ rows[k].ftype = Folder

====
